---- MODULE Spec2Model ----
(***************************************************************************)
(* Model of the HTTP handlers of src/main.rs: key generation, message      *)
(* signing and verification, and the four instruction builders.  Text is   *)
(* a sequence of one-character strings, binary data a sequence of bytes    *)
(* (0..255).  The base58 and base64 codecs are computed digit by digit as  *)
(* the bs58 and base64 crates compute them.  Ed25519 itself is given by    *)
(* its values on the keys, messages and signatures the model draws from    *)
(* (RFC 8032 keys; signatures computed with a reference implementation).   *)
(***************************************************************************)
EXTENDS Integers, Sequences, FiniteSets, TLC

\* ------------------------------------------------------------ bounds
\* amounts and lamports are drawn from 0..MaxAmount and SampleAmount
MaxAmount == 1
\* decimals are drawn from 0..MaxDecimals, 9 and 255
MaxDecimals == 1

\* ------------------------------------------------------------ sizes
\* size of a Pubkey / an Ed25519 public key, in bytes
PUBLIC_KEY_LENGTH == 32
\* size of an Ed25519 signature, in bytes
SIGNATURE_LENGTH == 64
\* size of Keypair::to_bytes(): seed followed by public key
KEYPAIR_LENGTH == 64
\* longest base58 text of a 32-byte value (Pubkey::from_str rejects longer)
MAX_BASE58_LEN == 44

\* ------------------------------------------------------------ base58 (bs58)
B58Alphabet ==
    <<"1","2","3","4","5","6","7","8","9","A","B","C","D","E","F","G","H","J","K",
      "L","M","N","P","Q","R","S","T","U","V","W","X","Y","Z","a","b","c","d","e",
      "f","g","h","i","j","k","m","n","o","p","q","r","s","t","u","v","w","x","y","z">>

\* value of a character in the alphabet, 0..57, or -1 when it is not in it
B58Value(c) ==
    IF \E i \in DOMAIN B58Alphabet : B58Alphabet[i] = c
    THEN (CHOOSE i \in DOMAIN B58Alphabet : B58Alphabet[i] = c) - 1
    ELSE -1

Reverse(s) == [i \in 1..Len(s) |-> s[Len(s) + 1 - i]]

\* number of leading elements of s equal to z (take_while(..).count())
LeadingCount(s, z) ==
    IF \A i \in DOMAIN s : s[i] = z THEN Len(s)
    ELSE (CHOOSE i \in DOMAIN s : s[i] # z /\ \A j \in 1..(i - 1) : s[j] = z) - 1

RECURSIVE CarryDigits(_, _)
\* the digits of carry in the given base, least significant first
CarryDigits(carry, base) ==
    IF carry = 0 THEN <<>>
    ELSE <<carry % base>> \o CarryDigits(carry \div base, base)

RECURSIVE MulAddRange(_, _, _, _, _, _)
\* the inner loop of the codec over the digits lo..hi of out (little-endian, in
\* base `base`): each digit becomes (carry + digit * mul) % base and the carry
\* moves on; the range is halved only to keep the evaluation shallow
MulAddRange(out, lo, hi, carry, mul, base) ==
    IF lo > hi THEN [digits |-> <<>>, carry |-> carry]
    ELSE IF lo = hi
    THEN LET v == carry + out[lo] * mul
         IN  [digits |-> <<v % base>>, carry |-> v \div base]
    ELSE LET mid   == (lo + hi) \div 2
             left  == MulAddRange(out, lo, mid, carry, mul, base)
             right == MulAddRange(out, mid + 1, hi, left.carry, mul, base)
         IN  \* the test has the lower half computed before the upper half starts
             IF left.carry >= 0
             THEN [digits |-> left.digits \o right.digits, carry |-> right.carry]
             ELSE left

\* out times `mul` plus `carry`; the digits of the last carry are appended
MulAdd(out, carry, mul, base) ==
    LET r == MulAddRange(out, 1, Len(out), carry, mul, base)
    IN  r.digits \o CarryDigits(r.carry, base)

RECURSIVE B58DecodeRange(_, _, _, _)
\* bs58 decode_into over the characters lo..hi: the little-endian bytes of the
\* number read so far, starting from out
B58DecodeRange(text, lo, hi, out) ==
    IF lo > hi THEN out
    ELSE IF lo = hi THEN MulAdd(out, B58Value(text[lo]), 58, 256)
    ELSE LET mid  == (lo + hi) \div 2
             left == B58DecodeRange(text, lo, mid, out)
         IN  \* the test has the first half computed before the second half starts
             IF Len(left) >= 0 THEN B58DecodeRange(text, mid + 1, hi, left) ELSE left

\* bs58::decode(text).into_vec(): [ok, bytes]
bs58_decode(text) ==
    IF \E i \in DOMAIN text : B58Value(text[i]) = -1
    THEN [ok |-> FALSE, bytes |-> <<>>]
    ELSE LET digits == B58DecodeRange(text, 1, Len(text), <<>>)
             zeros  == [i \in 1..LeadingCount(text, "1") |-> 0]
         IN  [ok |-> TRUE, bytes |-> Reverse(digits \o zeros)]

RECURSIVE B58EncodeRange(_, _, _, _)
\* bs58 encode_into over the bytes lo..hi: the little-endian base-58 digits of
\* the number read so far, starting from out
B58EncodeRange(bytes, lo, hi, out) ==
    IF lo > hi THEN out
    ELSE IF lo = hi THEN MulAdd(out, bytes[lo], 256, 58)
    ELSE LET mid  == (lo + hi) \div 2
             left == B58EncodeRange(bytes, lo, mid, out)
         IN  \* the test has the first half computed before the second half starts
             IF Len(left) >= 0 THEN B58EncodeRange(bytes, mid + 1, hi, left) ELSE left

\* bs58::encode(bytes).into_string()
bs58_encode(bytes) ==
    LET digits == B58EncodeRange(bytes, 1, Len(bytes), <<>>)
        zeros  == [i \in 1..LeadingCount(bytes, 0) |-> 0]
        all    == Reverse(digits \o zeros)
    IN  [i \in 1..Len(all) |-> B58Alphabet[all[i] + 1]]

\* ------------------------------------------------------------ base64 (STANDARD)
B64Alphabet ==
    <<"A","B","C","D","E","F","G","H","I","J","K","L","M","N","O","P","Q","R","S",
      "T","U","V","W","X","Y","Z","a","b","c","d","e","f","g","h","i","j","k","l",
      "m","n","o","p","q","r","s","t","u","v","w","x","y","z","0","1","2","3","4",
      "5","6","7","8","9","+","/">>

B64Pad == "="

B64Value(c) ==
    IF \E i \in DOMAIN B64Alphabet : B64Alphabet[i] = c
    THEN (CHOOSE i \in DOMAIN B64Alphabet : B64Alphabet[i] = c) - 1
    ELSE -1

B64Char(v) == B64Alphabet[v + 1]

\* the characters for the input chunk that starts at byte i (1, 2 or 3 bytes)
B64EncodeChunk(bytes, i) ==
    LET n  == Len(bytes) - i + 1
        b1 == bytes[i]
        b2 == IF n >= 2 THEN bytes[i + 1] ELSE 0
        b3 == IF n >= 3 THEN bytes[i + 2] ELSE 0
        c1 == B64Char(b1 \div 4)
        c2 == B64Char((b1 % 4) * 16 + b2 \div 16)
        c3 == B64Char((b2 % 16) * 4 + b3 \div 64)
        c4 == B64Char(b3 % 64)
    IN  IF n >= 3 THEN <<c1, c2, c3, c4>>
        ELSE IF n = 2 THEN <<c1, c2, c3, B64Pad>>
        ELSE <<c1, c2, B64Pad, B64Pad>>

\* general_purpose::STANDARD.encode(bytes): padded, standard alphabet;
\* character p belongs to the chunk of 3 bytes that starts at byte 3 * ((p-1) \div 4) + 1
base64_encode(bytes) ==
    [p \in 1..(4 * ((Len(bytes) + 2) \div 3)) |->
        B64EncodeChunk(bytes, 3 * ((p - 1) \div 4) + 1)[((p - 1) % 4) + 1]]

\* the bytes of the 4-character group at i; ok is FALSE for a bad symbol,
\* misplaced padding or non-zero trailing bits
B64DecodeChunk(text, i) ==
    LET last == i + 3 = Len(text)
        pad  == IF ~last THEN 0
                ELSE IF text[i + 3] # B64Pad THEN 0
                ELSE IF text[i + 2] # B64Pad THEN 1 ELSE 2
        v1 == B64Value(text[i])
        v2 == B64Value(text[i + 1])
        v3 == IF pad = 2 THEN 0 ELSE B64Value(text[i + 2])
        v4 == IF pad >= 1 THEN 0 ELSE B64Value(text[i + 3])
        b1 == v1 * 4 + v2 \div 16
        b2 == (v2 % 16) * 16 + v3 \div 4
        b3 == (v3 % 4) * 64 + v4
    IN  IF v1 = -1 \/ v2 = -1 \/ v3 = -1 \/ v4 = -1
        THEN [ok |-> FALSE, bytes |-> <<>>]
        ELSE IF pad = 2 THEN [ok |-> v2 % 16 = 0, bytes |-> <<b1>>]
        ELSE IF pad = 1 THEN [ok |-> v3 % 4 = 0, bytes |-> <<b1, b2>>]
        ELSE [ok |-> TRUE, bytes |-> <<b1, b2, b3>>]

\* general_purpose::STANDARD.decode(text): groups of 4 characters, canonical
\* padding required; byte p comes from the group that starts at 4 * ((p-1) \div 3) + 1
base64_decode(text) ==
    LET groups == Len(text) \div 4
        chunk(g) == B64DecodeChunk(text, 4 * (g - 1) + 1)
    IN  IF Len(text) % 4 # 0 \/ \E g \in 1..groups : ~chunk(g).ok
        THEN [ok |-> FALSE, bytes |-> <<>>]
        ELSE LET n == IF groups = 0 THEN 0
                      ELSE 3 * (groups - 1) + Len(chunk(groups).bytes)
             IN  [ok    |-> TRUE,
                  bytes |-> [p \in 1..n |-> chunk(((p - 1) \div 3) + 1).bytes[((p - 1) % 3) + 1]]]

\* ------------------------------------------------------------ Ed25519 values
\* RFC 8032 section 7.1, tests 1 and 2: seeds and their public keys
SEED_1 ==
    <<157,97,177,157,239,253,90,96,186,132,74,244,146,236,44,196,68,73,197,105,123,50,
    105,25,112,59,172,3,28,174,127,96>>

PUBLIC_1 ==
    <<215,90,152,1,130,177,10,183,213,75,254,211,201,100,7,58,14,225,114,243,218,166,35,
    37,175,2,26,104,247,7,81,26>>

SEED_2 ==
    <<76,205,8,155,40,255,150,218,157,182,195,70,236,17,78,15,91,138,49,159,53,171,166,
    36,218,140,246,237,79,184,166,251>>

PUBLIC_2 ==
    <<61,64,23,195,232,67,137,90,146,183,10,167,77,27,126,188,156,152,44,207,46,196,150,
    140,192,205,85,241,42,244,102,12>>

\* 32 zero bytes: the system program id, and also a valid curve point (y = 0)
ZERO_32 == [i \in 1..32 |-> 0]

\* a 32-byte value that is not the encoding of a curve point (y = 2)
NONPOINT_32 == <<2>> \o [i \in 1..31 |-> 0]

\* the Ed25519 signatures of the messages under (seed, public key):
\* keys 1 and 2 are the RFC 8032 pairs, key 3 is the pair (ZERO_32, ZERO_32),
\* which Keypair::from_bytes accepts although its halves do not match
SIG_1_hello ==
    <<81,28,164,151,196,212,39,11,9,139,26,253,90,228,227,185,81,165,218,44,157,166,233,
    192,82,143,87,97,136,54,118,231,223,110,76,15,14,27,90,10,68,68,244,41,139,24,130,
    221,130,47,177,19,60,189,73,171,251,153,108,135,205,91,133,6>>

SIG_1_world ==
    <<209,135,225,217,101,126,120,192,229,151,169,66,127,241,0,74,190,71,82,146,9,102,
    96,25,38,104,189,112,81,62,13,219,211,155,164,191,183,89,102,132,2,110,110,187,135,
    27,188,233,230,82,213,60,160,73,132,186,31,213,240,72,239,232,52,11>>

SIG_2_hello ==
    <<129,145,27,176,72,111,255,171,198,142,243,156,251,51,163,150,71,113,93,88,94,232,
    3,95,202,30,0,232,130,210,193,213,80,46,79,28,77,34,187,30,128,84,100,35,175,162,
    234,89,118,39,135,208,139,153,114,32,141,4,217,202,31,31,60,3>>

SIG_2_world ==
    <<140,81,227,75,216,126,213,232,247,134,208,188,127,153,142,110,160,216,144,253,40,
    232,110,244,89,111,23,207,82,120,125,153,6,228,16,34,133,86,111,80,182,55,112,103,
    126,198,63,194,161,210,223,109,97,225,36,74,71,248,91,202,92,113,64,0>>

SIG_3_hello ==
    <<226,92,135,35,208,57,254,143,69,214,201,214,168,145,127,169,27,199,84,145,60,213,
    150,253,53,138,73,58,33,163,203,89,77,181,120,223,0,160,117,142,117,31,89,189,206,
    243,22,249,247,176,201,224,205,125,33,158,192,183,44,229,80,75,46,13>>

SIG_3_world ==
    <<209,138,83,198,197,96,172,24,114,37,252,32,192,165,56,160,28,227,13,83,198,210,15,
    76,166,125,89,84,217,69,89,7,140,19,70,185,76,230,63,116,42,235,230,243,48,124,248,
    91,124,15,92,213,56,77,95,248,75,127,21,50,200,95,151,0>>

\* spl_token::ID
TOKEN_PROGRAM_ID ==
    <<6,221,246,225,215,101,161,147,217,203,225,70,206,235,121,172,28,180,133,237,
      95,91,55,145,58,140,245,133,126,255,0,169>>

\* solana_sdk::sysvar::rent::id()
RENT_SYSVAR_ID ==
    <<6,167,213,23,25,44,92,81,33,140,201,76,61,74,241,127,88,218,238,8,155,161,
      253,68,227,219,217,138,0,0,0,0>>

\* solana_sdk::system_program::id()
SYSTEM_PROGRAM_ID == ZERO_32

\* ------------------------------------------------------------ Ed25519 (ed25519-dalek 1.x)
Messages == {"hello", "world"}

\* the 32-byte values of the model that decompress to a curve point
CurvePoints == {PUBLIC_1, PUBLIC_2, ZERO_32}

\* sign(secret, public, message) on the keys and messages of the model, and
\* whether the public key verifies the signature over that message
SignatureTable ==
    { [secret |-> SEED_1, public |-> PUBLIC_1, message |-> "hello",
       signature |-> SIG_1_hello, verifies |-> TRUE],
      [secret |-> SEED_1, public |-> PUBLIC_1, message |-> "world",
       signature |-> SIG_1_world, verifies |-> TRUE],
      [secret |-> SEED_2, public |-> PUBLIC_2, message |-> "hello",
       signature |-> SIG_2_hello, verifies |-> TRUE],
      [secret |-> SEED_2, public |-> PUBLIC_2, message |-> "world",
       signature |-> SIG_2_world, verifies |-> TRUE],
      [secret |-> ZERO_32, public |-> ZERO_32, message |-> "hello",
       signature |-> SIG_3_hello, verifies |-> FALSE],
      [secret |-> ZERO_32, public |-> ZERO_32, message |-> "world",
       signature |-> SIG_3_world, verifies |-> FALSE] }

\* the keypairs Keypair::new() can return in the model
GeneratedKeypairs ==
    { [secret |-> SEED_1, public |-> PUBLIC_1],
      [secret |-> SEED_2, public |-> PUBLIC_2] }

\* keypair.sign_message(message)
Keypair_sign_message(keypair, message) ==
    (CHOOSE e \in SignatureTable :
        /\ e.secret = keypair.secret
        /\ e.public = keypair.public
        /\ e.message = message).signature

\* pubkey.verify(message, &signature).is_ok()
PublicKey_verify(public, message, signature) ==
    \E e \in SignatureTable :
        /\ e.verifies
        /\ e.public = public
        /\ e.message = message
        /\ e.signature = signature

\* keypair.to_bytes(): the seed followed by the public key
Keypair_to_bytes(keypair) == keypair.secret \o keypair.public

\* Keypair::from_bytes: the length must be 64 and the public half a curve point;
\* the two halves are not checked against each other
Keypair_from_bytes(bytes) ==
    IF Len(bytes) # KEYPAIR_LENGTH
    THEN [ok |-> FALSE]
    ELSE LET secret == SubSeq(bytes, 1, 32)
             public == SubSeq(bytes, 33, 64)
         IN  IF public \in CurvePoints
             THEN [ok |-> TRUE, keypair |-> [secret |-> secret, public |-> public]]
             ELSE [ok |-> FALSE]

\* PublicKey::from_bytes: 32 bytes that decompress to a curve point
PublicKey_from_bytes(bytes) ==
    [ok |-> Len(bytes) = PUBLIC_KEY_LENGTH /\ bytes \in CurvePoints]

\* Signature::from_bytes: 64 bytes with the three highest bits of s unset
Signature_from_bytes(bytes) ==
    [ok |-> Len(bytes) = SIGNATURE_LENGTH /\ bytes[SIGNATURE_LENGTH] \div 32 = 0]

\* ------------------------------------------------------------ Pubkey (solana_sdk)
\* Pubkey::from_str: at most 44 characters, base58, exactly 32 bytes
Pubkey_from_str(text) ==
    IF Len(text) > MAX_BASE58_LEN THEN [ok |-> FALSE, bytes |-> <<>>]
    ELSE LET d == bs58_decode(text)
         IN  IF d.ok /\ Len(d.bytes) = PUBLIC_KEY_LENGTH
             THEN d
             ELSE [ok |-> FALSE, bytes |-> <<>>]

\* pubkey.to_string(): base58
Pubkey_to_string(bytes) == bs58_encode(bytes)

\* ------------------------------------------------------------ instruction constructors
RECURSIVE to_le_bytes(_, _)
\* the `width` little-endian bytes of n
to_le_bytes(n, width) ==
    IF width = 0 THEN <<>>
    ELSE <<n % 256>> \o to_le_bytes(n \div 256, width - 1)

\* AccountMeta::new (writable) and AccountMeta::new_readonly
AccountMeta_new(pubkey, is_signer) ==
    [pubkey |-> pubkey, is_signer |-> is_signer, is_writable |-> TRUE]

AccountMeta_new_readonly(pubkey, is_signer) ==
    [pubkey |-> pubkey, is_signer |-> is_signer, is_writable |-> FALSE]

\* spl_token::instruction::initialize_mint with no freeze authority
initialize_mint(token_program_id, mint_pubkey, mint_authority_pubkey, decimals) ==
    [ok |-> token_program_id = TOKEN_PROGRAM_ID,
     ix |-> [built      |-> TRUE,
             program_id |-> token_program_id,
             accounts   |-> << AccountMeta_new(mint_pubkey, FALSE),
                               AccountMeta_new_readonly(RENT_SYSVAR_ID, FALSE) >>,
             data       |-> <<0, decimals>> \o mint_authority_pubkey \o <<0>>]]

\* spl_token::instruction::mint_to with no multisig signers
mint_to(token_program_id, mint_pubkey, account_pubkey, owner_pubkey, amount) ==
    [ok |-> token_program_id = TOKEN_PROGRAM_ID,
     ix |-> [built      |-> TRUE,
             program_id |-> token_program_id,
             accounts   |-> << AccountMeta_new(mint_pubkey, FALSE),
                               AccountMeta_new(account_pubkey, FALSE),
                               AccountMeta_new_readonly(owner_pubkey, TRUE) >>,
             data       |-> <<7>> \o to_le_bytes(amount, 8)]]

\* spl_token::instruction::transfer with no multisig signers
token_transfer(token_program_id, source, destination, authority, amount) ==
    [ok |-> token_program_id = TOKEN_PROGRAM_ID,
     ix |-> [built      |-> TRUE,
             program_id |-> token_program_id,
             accounts   |-> << AccountMeta_new(source, FALSE),
                               AccountMeta_new(destination, FALSE),
                               AccountMeta_new_readonly(authority, TRUE) >>,
             data       |-> <<3>> \o to_le_bytes(amount, 8)]]

\* solana_sdk::system_instruction::transfer
system_transfer(from_pubkey, to_pubkey, lamports) ==
    [built      |-> TRUE,
     program_id |-> SYSTEM_PROGRAM_ID,
     accounts   |-> << AccountMeta_new(from_pubkey, TRUE),
                       AccountMeta_new(to_pubkey, FALSE) >>,
     data       |-> to_le_bytes(2, 4) \o to_le_bytes(lamports, 8)]

NoIx == [built |-> FALSE]

\* ------------------------------------------------------------ JSON values
\* a JSON string, and the JSON array of numbers serde writes for a Pubkey or Vec<u8>
JsonString(chars) == [type |-> "string", chars |-> chars]
JsonBytes(bytes) == [type |-> "array", items |-> bytes]

\* ------------------------------------------------------------ responses
NoResponse == [kind |-> "none"]

\* the handler panicked: no response is written
Panic == [kind |-> "panic"]

SuccessResponse(data) ==
    [kind |-> "ok", status |-> 200, body |-> [success |-> TRUE, data |-> data]]

ErrorResponse(status, error) ==
    [kind |-> "err", status |-> status, body |-> [success |-> FALSE, error |-> error]]

\* Json<Result<SuccessResponse<T>, ErrorResponse>>: the Result is written with
\* its variant as the one key of the body, {"Ok": ..} or {"Err": ..}, status 200
Json_Ok(data) ==
    [kind |-> "ok", status |-> 200, body |-> [Ok |-> SuccessResponse(data).body]]

Json_Err(error) ==
    [kind |-> "err", status |-> 200, body |-> [Err |-> ErrorResponse(200, error).body]]

TOKEN_TEXT ==
    <<"T","o","k","e","n","k","e","g","Q","f","e","Z","y","i","N","w","A","J","b","N",
    "b","G","K","P","F","X","C","W","u","B","v","f","9","S","s","6","2","3","V","Q","5",
    "D","A">>

PK1_TEXT ==
    <<"F","V","e","n","3","X","6","6","9","x","L","z","s","i","6","N","2","V","9","1",
    "D","o","i","y","z","H","z","g","1","u","A","g","q","i","T","8","j","Z","9","n","S",
    "9","6","Z">>

NONPOINT_TEXT ==
    <<"8","o","p","H","z","T","A","n","f","z","R","p","P","E","x","2","1","X","t","n",
    "r","V","T","X","2","8","Y","Q","u","C","p","A","j","c","n","1","P","c","z","S","c",
    "K","h">>

SEED1_NONPOINT_TEXT ==
    <<"4","9","W","3","8","5","L","4","r","e","P","H","y","6","P","A","a","Q","U","o",
    "v","b","D","2","a","a","c","g","N","4","H","s","K","X","S","M","e","U","z","R","g",
    "4","f","m","h","B","3","2","c","c","N","P","Y","4","u","H","M","6","s","d","u","s",
    "c","i","8","x","B","i","a","H","t","e","o","B","w","Y","W","p","g","3","a","5","8",
    "j","t","M","b","5">>

\* ------------------------------------------------------------ handlers
\* what a handler run leaves behind: the response, the Instruction the
\* constructor built for it (NoIx when none was built) and the Ed25519
\* primitive it reached ("none", "sign" or "verify")
Result(response, instruction, primitive) ==
    [resp |-> response, ix |-> instruction, reached |-> primitive]

\* generate_keypair: the response for the keypair Keypair::new() returned
generate_keypair_result(keypair) ==
    Result(SuccessResponse(
               [pubkey |-> JsonString(Pubkey_to_string(keypair.public)),
                secret |-> JsonString(bs58_encode(Keypair_to_bytes(keypair)))]),
           NoIx, "none")

\* variant: the signature written in base58, as the keys are
encode_signature_base58(signature) == bs58_encode(signature)

\* sign_message: the signature as it is written into the response
encode_signature(signature) == base64_encode(signature)

\* variant: a secret longer than 64 bytes is cut to its first 64 bytes
parse_secret_truncating(secret) ==
    LET d == bs58_decode(secret)
    IN  IF ~d.ok THEN [ok |-> FALSE, error |-> "Invalid secret key"]
        ELSE LET cut == IF Len(d.bytes) > KEYPAIR_LENGTH
                        THEN SubSeq(d.bytes, 1, KEYPAIR_LENGTH)
                        ELSE d.bytes
                 k   == Keypair_from_bytes(cut)
             IN  IF ~k.ok THEN [ok |-> FALSE, error |-> "Invalid keypair format"]
                 ELSE [ok |-> TRUE, keypair |-> k.keypair]

\* sign_message: the secret turned into a keypair, or the error of the step that failed
parse_secret(secret) ==
    LET d == bs58_decode(secret)
    IN  IF ~d.ok THEN [ok |-> FALSE, error |-> "Invalid secret key"]
        ELSE LET k == Keypair_from_bytes(d.bytes)
             IN  IF ~k.ok THEN [ok |-> FALSE, error |-> "Invalid keypair format"]
                 ELSE [ok |-> TRUE, keypair |-> k.keypair]

sign_message_result(payload) ==
    LET k == parse_secret(payload.secret)
    IN  IF ~k.ok THEN Result(Json_Err(k.error), NoIx, "none")
        ELSE LET signature == Keypair_sign_message(k.keypair, payload.message)
             IN  Result(Json_Ok(
                            [signature  |-> JsonString(encode_signature(signature)),
                             public_key |-> JsonString(Pubkey_to_string(k.keypair.public)),
                             message    |-> payload.message]),
                        NoIx, "sign")

\* variant: the pubkey bytes accepted whatever their length
decode_pubkey_any_length(text) == bs58_decode(text)

\* verify_message: the pubkey bytes, accepted only when base58 of exactly 32 bytes
decode_pubkey(text) ==
    LET d == bs58_decode(text)
    IN  IF d.ok /\ Len(d.bytes) = PUBLIC_KEY_LENGTH THEN d
        ELSE [ok |-> FALSE, bytes |-> <<>>]

\* verify_message: the signature bytes, accepted only when base64 of exactly 64 bytes
decode_signature(text) ==
    LET d == base64_decode(text)
    IN  IF d.ok /\ Len(d.bytes) = SIGNATURE_LENGTH THEN d
        ELSE [ok |-> FALSE, bytes |-> <<>>]

\* verify_message: both from_bytes results are unwrapped, so an error panics
verify_message_result(payload) ==
    LET pubkey_bytes == decode_pubkey(payload.pubkey)
    IN  IF ~pubkey_bytes.ok
        THEN Result(Json_Err("Invalid base58 pubkey or incorrect size"),
                    NoIx, "none")
        ELSE
        LET signature_bytes == decode_signature(payload.signature)
        IN  IF ~signature_bytes.ok
            THEN Result(Json_Err("Invalid base64 signature or incorrect size"),
                        NoIx, "none")
            ELSE IF ~PublicKey_from_bytes(pubkey_bytes.bytes).ok
            THEN Result(Panic, NoIx, "none")
            ELSE IF ~Signature_from_bytes(signature_bytes.bytes).ok
            THEN Result(Panic, NoIx, "none")
            ELSE Result(Json_Ok(
                            [valid   |-> PublicKey_verify(pubkey_bytes.bytes,
                                                          payload.message,
                                                          signature_bytes.bytes),
                             message |-> payload.message,
                             pubkey  |-> JsonString(payload.pubkey)]),
                        NoIx, "verify")

\* variant: an account whose address already appeared is left out
account_meta_responses_dedup(accounts) ==
    LET keep == SelectSeq([i \in 1..Len(accounts) |-> i],
                          LAMBDA i : \A j \in 1..(i - 1) :
                                        accounts[j].pubkey # accounts[i].pubkey)
    IN  [k \in 1..Len(keep) |->
            [pubkey      |-> JsonString(Pubkey_to_string(accounts[keep[k]].pubkey)),
             is_signer   |-> accounts[keep[k]].is_signer,
             is_writable |-> accounts[keep[k]].is_writable]]

\* create_token, mint_token: the account metas as they are written into the response
account_meta_responses(accounts) ==
    [i \in 1..Len(accounts) |->
        [pubkey      |-> JsonString(Pubkey_to_string(accounts[i].pubkey)),
         is_signer   |-> accounts[i].is_signer,
         is_writable |-> accounts[i].is_writable]]

\* create_token, mint_token: InstructionData / InstructionResponse
instruction_data_response(ix) ==
    SuccessResponse([program_id       |-> JsonString(Pubkey_to_string(ix.program_id)),
                     accounts         |-> account_meta_responses(ix.accounts),
                     instruction_data |-> JsonString(base64_encode(ix.data))])

\* send_sol, send_token: the Instruction itself, as serde serializes it
instruction_serialized(ix) ==
    SuccessResponse(
        [program_id |-> JsonBytes(ix.program_id),
         accounts   |-> [i \in 1..Len(ix.accounts) |->
                            [pubkey      |-> JsonBytes(ix.accounts[i].pubkey),
                             is_signer   |-> ix.accounts[i].is_signer,
                             is_writable |-> ix.accounts[i].is_writable]],
         data       |-> JsonBytes(ix.data)])

create_token_result(payload) ==
    LET mint_pubkey == Pubkey_from_str(payload.mint)
    IN  IF ~mint_pubkey.ok
        THEN Result(ErrorResponse(400, "Invalid mint public key"), NoIx, "none")
        ELSE
        LET mint_authority_pubkey == Pubkey_from_str(payload.mint_authority)
        IN  IF ~mint_authority_pubkey.ok
            THEN Result(ErrorResponse(400, "Invalid mintAuthority public key"),
                        NoIx, "none")
            ELSE
            LET r == initialize_mint(TOKEN_PROGRAM_ID, mint_pubkey.bytes,
                                     mint_authority_pubkey.bytes, payload.decimals)
            IN  IF ~r.ok
                THEN Result(ErrorResponse(400, "Failed to create instruction"),
                            NoIx, "none")
                ELSE Result(instruction_data_response(r.ix), r.ix, "none")

mint_token_result(payload) ==
    LET mint == Pubkey_from_str(payload.mint)
    IN  IF ~mint.ok
        THEN Result(ErrorResponse(400, "Invalid mint public key"), NoIx, "none")
        ELSE
        LET destination == Pubkey_from_str(payload.destination)
        IN  IF ~destination.ok
            THEN Result(ErrorResponse(400, "Invalid destination public key"),
                        NoIx, "none")
            ELSE
            LET authority == Pubkey_from_str(payload.authority)
            IN  IF ~authority.ok
                THEN Result(ErrorResponse(400, "Invalid authority public key"),
                            NoIx, "none")
                ELSE
                LET r == mint_to(TOKEN_PROGRAM_ID, mint.bytes, destination.bytes,
                                 authority.bytes, payload.amount)
                IN  IF ~r.ok
                    THEN Result(ErrorResponse(400, "Failed to create instruction"),
                                NoIx, "none")
                    ELSE Result(instruction_data_response(r.ix), r.ix, "none")

\* variant: the two addresses reach the constructor in the other order
send_sol_result_swapped(payload) ==
    LET from == Pubkey_from_str(payload.from)
        to   == Pubkey_from_str(payload.to)
    IN  IF ~from.ok \/ ~to.ok THEN Result(Panic, NoIx, "none")
        ELSE LET ix == system_transfer(to.bytes, from.bytes, payload.lamports)
             IN  Result(instruction_serialized(ix), ix, "none")

\* send_sol: each Pubkey::from_str is unwrapped, so a parse error panics
send_sol_result(payload) ==
    LET from == Pubkey_from_str(payload.from)
        to   == Pubkey_from_str(payload.to)
    IN  IF ~from.ok \/ ~to.ok THEN Result(Panic, NoIx, "none")
        ELSE LET ix == system_transfer(from.bytes, to.bytes, payload.lamports)
             IN  Result(instruction_serialized(ix), ix, "none")

\* variant: the addresses reach the constructor in the order of the request's fields
send_token_result_field_order(payload) ==
    LET mint        == Pubkey_from_str(payload.mint)
        destination == Pubkey_from_str(payload.destination)
        owner       == Pubkey_from_str(payload.owner)
    IN  IF ~mint.ok \/ ~destination.ok \/ ~owner.ok THEN Result(Panic, NoIx, "none")
        ELSE LET r == token_transfer(TOKEN_PROGRAM_ID, destination.bytes, mint.bytes,
                                     owner.bytes, payload.amount)
             IN  IF ~r.ok THEN Result(Panic, NoIx, "none")
                 ELSE Result(instruction_serialized(r.ix), r.ix, "none")

\* send_token: the mint is passed as the source account; every step is unwrapped
send_token_result(payload) ==
    LET mint        == Pubkey_from_str(payload.mint)
        destination == Pubkey_from_str(payload.destination)
        owner       == Pubkey_from_str(payload.owner)
    IN  IF ~mint.ok \/ ~destination.ok \/ ~owner.ok THEN Result(Panic, NoIx, "none")
        ELSE LET r == token_transfer(TOKEN_PROGRAM_ID, mint.bytes, destination.bytes,
                                     owner.bytes, payload.amount)
             IN  IF ~r.ok THEN Result(Panic, NoIx, "none")
                 ELSE Result(instruction_serialized(r.ix), r.ix, "none")

\* ------------------------------------------------------------ request inputs
Ones(n) == [i \in 1..n |-> "1"]

\* "11111111111111111111111111111111": the system program, 32 zero bytes
SYSTEM_TEXT == Ones(32)
\* characters outside the base58 alphabet
BAD_ALPHABET_TEXT == <<"0", "O", "I", "l">>
\* base58, but of 4 bytes
SHORT_TEXT == Ones(4)
\* base58, but of 45 bytes
LONG_TEXT == Ones(45)

AddressInputs ==
    {SYSTEM_TEXT, TOKEN_TEXT, PK1_TEXT, BAD_ALPHABET_TEXT, SHORT_TEXT, LONG_TEXT}

Amounts == (0..MaxAmount) \cup {1000000}
Decimals == (0..MaxDecimals) \cup {9, 255}

\* secrets a client may send besides the one a keypair response gave it:
\* not base58; 32, 64 and 65 zero bytes; 64 bytes whose public half is no curve point
SecretInputs ==
    {BAD_ALPHABET_TEXT, Ones(32), Ones(64), Ones(65), SEED1_NONPOINT_TEXT}

\* pubkeys a client may send to verify_message besides a generated one
PubkeyInputs == {SYSTEM_TEXT, NONPOINT_TEXT, BAD_ALPHABET_TEXT, SHORT_TEXT}

\* base64 of 64 zero bytes
ZERO_SIGNATURE_TEXT == [i \in 1..86 |-> "A"] \o <<"=", "=">>
\* base64 of 63 zero bytes and the byte 224: the high bits of s are set
HIGH_BITS_SIGNATURE_TEXT == [i \in 1..84 |-> "A"] \o <<"4", "A", "=", "=">>
\* base64 of 3 bytes
SHORT_SIGNATURE_TEXT == <<"A", "A", "A", "A">>
\* 64 zero bytes in base64 without the padding
UNPADDED_SIGNATURE_TEXT == [i \in 1..86 |-> "A"]

\* signatures a client may send besides the one a sign response gave it
SignatureInputs ==
    {ZERO_SIGNATURE_TEXT, HIGH_BITS_SIGNATURE_TEXT, SHORT_SIGNATURE_TEXT,
     UNPADDED_SIGNATURE_TEXT}

\* ------------------------------------------------------------ state
VARIABLES
    phase,   \* "idle", "pending" (a request is routed to its handler), "done"
    req,     \* the request: op and the deserialized payload
    resp,    \* the handler's response
    ix,      \* the Instruction the constructor returned to the handler
    reached, \* the Ed25519 primitive the handler reached: "none", "sign", "verify"
    kp,      \* client side: the KeypairData of the last /keypair response
    signed   \* client side: the last successful /message/sign exchange

vars == <<phase, req, resp, ix, reached, kp, signed>>

NoRequest == [op |-> "none"]
NoKeypair == [present |-> FALSE]
NoSigned == [present |-> FALSE]

Init ==
    /\ phase = "idle"
    /\ req = NoRequest
    /\ resp = NoResponse
    /\ ix = NoIx
    /\ reached = "none"
    /\ kp = NoKeypair
    /\ signed = NoSigned

\* a request is routed: the Json extractor hands the payload to the handler
Route(request) ==
    /\ phase' = "pending"
    /\ req' = request
    /\ UNCHANGED <<resp, ix, reached, kp, signed>>

Post_keypair ==
    /\ phase = "idle"
    /\ Route([op |-> "generate_keypair"])

Post_message_sign ==
    /\ phase = "idle"
    /\ \E message \in Messages,
          secret \in SecretInputs \cup (IF kp.present THEN {kp.secret} ELSE {}) :
           Route([op |-> "sign_message", message |-> message, secret |-> secret])

Post_message_verify ==
    /\ phase = "idle"
    /\ \E message \in Messages,
          signature \in SignatureInputs
                           \cup (IF signed.present THEN {signed.signature} ELSE {}),
          pubkey \in PubkeyInputs \cup (IF kp.present THEN {kp.pubkey} ELSE {}) :
           Route([op |-> "verify_message", message |-> message,
                  signature |-> signature, pubkey |-> pubkey])

Post_token_create ==
    /\ phase = "idle"
    /\ \E mint \in AddressInputs, mint_authority \in AddressInputs,
          decimals \in Decimals :
           Route([op |-> "create_token", mint |-> mint,
                  mint_authority |-> mint_authority, decimals |-> decimals])

Post_token_mint ==
    /\ phase = "idle"
    /\ \E mint \in AddressInputs, destination \in AddressInputs,
          authority \in AddressInputs, amount \in Amounts :
           Route([op |-> "mint_token", mint |-> mint, destination |-> destination,
                  authority |-> authority, amount |-> amount])

Post_send_sol ==
    /\ phase = "idle"
    /\ \E from \in AddressInputs, to \in AddressInputs, lamports \in Amounts :
           Route([op |-> "send_sol", from |-> from, to |-> to, lamports |-> lamports])

Post_send_token ==
    /\ phase = "idle"
    /\ \E destination \in AddressInputs, mint \in AddressInputs,
          owner \in AddressInputs, amount \in Amounts :
           Route([op |-> "send_token", destination |-> destination, mint |-> mint,
                  owner |-> owner, amount |-> amount])

\* the handler has run: its response, instruction and primitive are recorded
Return(result) ==
    /\ phase' = "done"
    /\ resp' = result.resp
    /\ ix' = result.ix
    /\ reached' = result.reached
    /\ UNCHANGED <<req, kp, signed>>

generate_keypair ==
    /\ phase = "pending"
    /\ req.op = "generate_keypair"
    /\ \E keypair \in GeneratedKeypairs : Return(generate_keypair_result(keypair))

sign_message ==
    /\ phase = "pending"
    /\ req.op = "sign_message"
    /\ Return(sign_message_result(req))

verify_message ==
    /\ phase = "pending"
    /\ req.op = "verify_message"
    /\ Return(verify_message_result(req))

create_token ==
    /\ phase = "pending"
    /\ req.op = "create_token"
    /\ Return(create_token_result(req))

mint_token ==
    /\ phase = "pending"
    /\ req.op = "mint_token"
    /\ Return(mint_token_result(req))

send_sol ==
    /\ phase = "pending"
    /\ req.op = "send_sol"
    /\ Return(send_sol_result(req))

send_token ==
    /\ phase = "pending"
    /\ req.op = "send_token"
    /\ Return(send_token_result(req))

\* the response reaches the client, which keeps the keys and signatures it was given
Deliver ==
    /\ phase = "done"
    /\ phase' = "idle"
    /\ req' = NoRequest
    /\ resp' = NoResponse
    /\ ix' = NoIx
    /\ reached' = "none"
    /\ kp' = IF req.op = "generate_keypair"
             THEN [present |-> TRUE,
                   pubkey  |-> resp.body.data.pubkey.chars,
                   secret  |-> resp.body.data.secret.chars]
             ELSE kp
    /\ signed' = IF req.op = "sign_message" /\ resp.kind = "ok"
                 THEN [present   |-> TRUE,
                       message   |-> req.message,
                       secret    |-> req.secret,
                       signature |-> resp.body.Ok.data.signature.chars]
                 ELSE signed

NextMsg ==
    \/ Post_keypair
    \/ Post_message_sign
    \/ Post_message_verify
    \/ generate_keypair
    \/ sign_message
    \/ verify_message
    \/ Deliver

NextInstr ==
    \/ Post_token_create
    \/ Post_token_mint
    \/ Post_send_sol
    \/ Post_send_token
    \/ create_token
    \/ mint_token
    \/ send_sol
    \/ send_token
    \/ Deliver

Next == NextMsg \/ NextInstr

\* the whole server
Spec == Init /\ [][Next]_vars
\* the key and message endpoints
SpecMsg == Init /\ [][NextMsg]_vars
\* the instruction-builder endpoints
SpecInstr == Init /\ [][NextInstr]_vars

\* ------------------------------------------------------------ properties
BuilderOps == {"create_token", "mint_token", "send_sol", "send_token"}

BuilderDone == phase = "done" /\ req.op \in BuilderOps
SignDone == phase = "done" /\ req.op = "sign_message"
VerifyDone == phase = "done" /\ req.op = "verify_message"

\* an address text is malformed: not base58, or not of exactly 32 bytes
Malformed(text) ==
    LET d == bs58_decode(text)
    IN  ~d.ok \/ Len(d.bytes) # PUBLIC_KEY_LENGTH

\* the address parameters of the request, in the order the handler parses them
AddressParams ==
    CASE req.op = "create_token" ->
            << [field |-> "mint", text |-> req.mint],
               [field |-> "mintAuthority", text |-> req.mint_authority] >>
      [] req.op = "mint_token" ->
            << [field |-> "mint", text |-> req.mint],
               [field |-> "destination", text |-> req.destination],
               [field |-> "authority", text |-> req.authority] >>
      [] req.op = "send_sol" ->
            << [field |-> "from", text |-> req.from],
               [field |-> "to", text |-> req.to] >>
      [] req.op = "send_token" ->
            << [field |-> "mint", text |-> req.mint],
               [field |-> "destination", text |-> req.destination],
               [field |-> "owner", text |-> req.owner] >>
      [] OTHER -> << >>

SomeMalformed == \E i \in DOMAIN AddressParams : Malformed(AddressParams[i].text)
AllWellFormed == \A i \in DOMAIN AddressParams : ~Malformed(AddressParams[i].text)

\* the first malformed address parameter, in parse order
FirstMalformed ==
    AddressParams[CHOOSE i \in DOMAIN AddressParams :
                     /\ Malformed(AddressParams[i].text)
                     /\ \A j \in 1..(i - 1) : ~Malformed(AddressParams[j].text)]

\* the error message that names an address field
FieldError(field) == "Invalid " \o field \o " public key"

\* the bytes of an address of a response, whichever way it is written
AddressBytes(json) ==
    IF json.type = "string" THEN bs58_decode(json.chars).bytes ELSE json.items

\* the payload of an instruction response
Payload(data) ==
    IF "instruction_data" \in DOMAIN data THEN data.instruction_data ELSE data.data

\* C1: a builder request with a malformed address gets an error response:
\* no panic, no instruction.
C1_MalformedAddressIsError ==
    (BuilderDone /\ SomeMalformed) => (resp.kind = "err" /\ ~ix.built)

\* the pubkey and the signature of a verify request have the sizes 32 and 64
WellSizedPubkey ==
    LET d == bs58_decode(req.pubkey)
    IN  d.ok /\ Len(d.bytes) = PUBLIC_KEY_LENGTH

WellSizedSignature ==
    LET d == base64_decode(req.signature)
    IN  d.ok /\ Len(d.bytes) = SIGNATURE_LENGTH

\* C2: a verify request whose pubkey decodes to 32 bytes and whose signature
\* decodes to 64 bytes gets a success response carrying a boolean `valid`,
\* never an error and never a panic.
C2_WellSizedVerifyAnswers ==
    (VerifyDone /\ WellSizedPubkey /\ WellSizedSignature)
        => (resp.kind = "ok" /\ resp.body.Ok.data.valid \in BOOLEAN)

\* C3: a verify request whose pubkey is not base58 of 32 bytes, or whose
\* signature is not base64 of 64 bytes, gets an error response without `valid`,
\* and the cryptographic check is not reached.
C3_BadSizeVerifyIsError ==
    (VerifyDone /\ ~(WellSizedPubkey /\ WellSizedSignature))
        => /\ resp.kind = "err"
           /\ DOMAIN resp.body = {"Err"}
           /\ "data" \notin DOMAIN resp.body.Err
           /\ reached = "none"

\* a pubkey of the right size with a signature of 3 bytes was refused
C3_Witness ==
    /\ VerifyDone
    /\ req.pubkey = SYSTEM_TEXT
    /\ req.signature = SHORT_SIGNATURE_TEXT
    /\ resp.kind = "err"

\* the verify request repeats what generate_keypair and sign_message returned
VerifiesOwnSignature ==
    /\ VerifyDone
    /\ kp.present
    /\ signed.present
    /\ signed.secret = kp.secret
    /\ req.message = signed.message
    /\ req.signature = signed.signature
    /\ req.pubkey = kp.pubkey

\* C4: signing with the secret generate_keypair returned succeeds, and verifying
\* the returned signature with the returned pubkey over the same message gives
\* valid = true.
C4_SignThenVerify ==
    /\ (SignDone /\ kp.present /\ req.secret = kp.secret) => resp.kind = "ok"
    /\ VerifiesOwnSignature => (resp.kind = "ok" /\ resp.body.Ok.data.valid = TRUE)

C4_Witness ==
    /\ VerifiesOwnSignature
    /\ resp.kind = "ok"
    /\ resp.body.Ok.data.valid = TRUE

\* C5: every successful builder response is transport-safe: the program id and
\* every account address are base58 text and the payload is a base64 string.
C5_TransportSafe ==
    (BuilderDone /\ resp.kind = "ok") =>
        LET data == resp.body.data
        IN  /\ data.program_id.type = "string"
            /\ ~Malformed(data.program_id.chars)
            /\ \A i \in DOMAIN data.accounts :
                  /\ data.accounts[i].pubkey.type = "string"
                  /\ ~Malformed(data.accounts[i].pubkey.chars)
            /\ Payload(data).type = "string"
            /\ base64_decode(Payload(data).chars).ok

\* C6: a malformed address gives an error that names the first malformed field
\* in parse order, and the instruction constructor is not invoked.
C6_ErrorNamesFirstMalformedField ==
    (BuilderDone /\ SomeMalformed) =>
        /\ resp.kind = "err"
        /\ resp.body.error = FieldError(FirstMalformed.field)
        /\ ~ix.built

\* C7: the accounts of a successful builder response are the accounts the
\* constructor returned, position by position: same length, same address, same
\* flags.
C7_AccountsPreserved ==
    (BuilderDone /\ resp.kind = "ok") =>
        LET accounts == resp.body.data.accounts
        IN  /\ ix.built
            /\ Len(accounts) = Len(ix.accounts)
            /\ \A i \in DOMAIN ix.accounts :
                  /\ AddressBytes(accounts[i].pubkey) = ix.accounts[i].pubkey
                  /\ accounts[i].is_signer = ix.accounts[i].is_signer
                  /\ accounts[i].is_writable = ix.accounts[i].is_writable

\* mint_token answered a request whose mint and destination are the same address
C7_Witness ==
    /\ BuilderDone
    /\ req.op = "mint_token"
    /\ resp.kind = "ok"
    /\ req.mint = req.destination
    /\ Len(resp.body.data.accounts) = 3

\* the secret of a sign request is not base58 of exactly 64 bytes
BadSecret ==
    LET d == bs58_decode(req.secret)
    IN  ~d.ok \/ Len(d.bytes) # KEYPAIR_LENGTH

\* C8: a sign request whose secret is not base58, or not of exactly 64 bytes,
\* gets an error response and no signature is made.
C8_BadSecretIsError ==
    (SignDone /\ BadSecret)
        => /\ resp.kind = "err"
           /\ DOMAIN resp.body = {"Err"}
           /\ "data" \notin DOMAIN resp.body.Err
           /\ reached = "none"

\* a secret of 65 bytes was refused
C8_Witness ==
    /\ SignDone
    /\ req.secret = Ones(65)
    /\ resp.kind = "err"

\* C9: send_sol with two well-formed addresses answers with exactly the fields
\* program id, accounts and payload, and exactly the accounts [from, to]:
\* from signer and writable, to writable and no signer.
C9_SendSolAccounts ==
    (BuilderDone /\ req.op = "send_sol" /\ AllWellFormed) =>
        /\ resp.kind = "ok"
        /\ DOMAIN resp.body.data = {"program_id", "accounts", "data"}
        /\ LET accounts == resp.body.data.accounts
           IN  /\ Len(accounts) = 2
               /\ AddressBytes(accounts[1].pubkey) = bs58_decode(req.from).bytes
               /\ accounts[1].is_signer /\ accounts[1].is_writable
               /\ AddressBytes(accounts[2].pubkey) = bs58_decode(req.to).bytes
               /\ ~accounts[2].is_signer /\ accounts[2].is_writable

\* send_sol answered a transfer of 1,000,000 lamports between two different addresses
C9_Witness ==
    /\ BuilderDone
    /\ req.op = "send_sol"
    /\ req.from = PK1_TEXT
    /\ req.to = TOKEN_TEXT
    /\ req.lamports = 1000000
    /\ resp.kind = "ok"

\* C10: send_token with three well-formed addresses builds a transfer whose
\* accounts are [mint, destination, owner]: the mint fills the source slot, the
\* owner is the authority and the only signer.
C10_SendTokenAccounts ==
    (BuilderDone /\ req.op = "send_token" /\ AllWellFormed) =>
        /\ resp.kind = "ok"
        /\ ix.built
        /\ Len(ix.accounts) = 3
        /\ ix.accounts[1] = [pubkey |-> bs58_decode(req.mint).bytes,
                             is_signer |-> FALSE, is_writable |-> TRUE]
        /\ ix.accounts[2] = [pubkey |-> bs58_decode(req.destination).bytes,
                             is_signer |-> FALSE, is_writable |-> TRUE]
        /\ ix.accounts[3] = [pubkey |-> bs58_decode(req.owner).bytes,
                             is_signer |-> TRUE, is_writable |-> FALSE]
        /\ \A i \in DOMAIN resp.body.data.accounts :
              /\ AddressBytes(resp.body.data.accounts[i].pubkey) = ix.accounts[i].pubkey
              /\ resp.body.data.accounts[i].is_signer = (i = 3)

\* send_token answered a request with three different addresses
C10_Witness ==
    /\ BuilderDone
    /\ req.op = "send_token"
    /\ req.mint = TOKEN_TEXT
    /\ req.destination = PK1_TEXT
    /\ req.owner = SYSTEM_TEXT
    /\ resp.kind = "ok"

====
